---- MODULE Spec2Model ----
(***************************************************************************)
(* AverageInitialization (mlpack, methods/amf/init_rules/average_init.hpp) *)
(*                                                                         *)
(* The two static members Initialize and InitializeOne are modelled as     *)
(* atomic actions over the caller's objects: the input matrix V, the rank  *)
(* r, the output matrices W, H and M, and the state of the random source   *)
(* used by randu.  Doubles are modelled by a small binary floating-point   *)
(* format with round-to-nearest-even, subnormals, infinities and NaN, so   *)
(* that rounding, overflow, division by zero and the square root of a      *)
(* negative number behave as they do in IEEE-754 arithmetic.               *)
(***************************************************************************)
EXTENDS Integers, Sequences, FiniteSets

VARIABLES V, r, W, H, M, rng, pc, call, ref

vars == <<V, r, W, H, M, rng, pc, call, ref>>

(***************************************************************************)
(* Bounds of the model.                                                    *)
(***************************************************************************)
\* Significand width of the modelled floating-point format, in bits.
Precision == 3
\* Number of fraction bits of the smallest positive value (2^-FracBits).
FracBits == 2
\* Number of binades above the first one; fixes the largest finite value.
ExpSpan == 3
\* Largest row and column count of an input matrix.
MaxDim == 3
\* Largest number of cells (n_rows * n_cols) of an input matrix.
MaxCells == 3
\* Largest rank r.
MaxRank == 2
\* Largest integer value (in units of 3.0) of an element of V.
MaxVal == 1
\* Period of the modelled stream of uniform draws.
RngPeriod == 3
\* Largest row count of a matrix the caller hands in as W, H or M.
MaxPriorRows == 1
\* Bounds of the inputs used when calls are made one after another.
SeqRows == 1
SeqCols == 2
SeqRank == 1

(***************************************************************************)
(* Floating-point arithmetic.  A finite value is an integer multiple v of  *)
(* 2^-FracBits with at most Precision significant bits.                    *)
(***************************************************************************)
RECURSIVE Pow2(_)
Pow2(k) == IF k = 0 THEN 1 ELSE 2 * Pow2(k - 1)

One == Pow2(FracBits)
TwoP == Pow2(Precision)
MaxK == (TwoP - 1) * Pow2(ExpSpan)

FNum(v) == [k |-> "num", v |-> v]
NaN == [k |-> "nan", v |-> 0]
PInf == [k |-> "pinf", v |-> 0]
NInf == [k |-> "ninf", v |-> 0]
Zero == FNum(0)

IsNaN(a) == a.k = "nan"
IsNum(a) == a.k = "num"
IsInf(a) == a.k \in {"pinf", "ninf"}

\* <cfloat>: the largest finite double.
DBL_MAX == FNum(MaxK)

Abs(x) == IF x < 0 THEN -x ELSE x

\* The spacing of the format around the magnitude a / den.
RECURSIVE Quantum(_, _, _)
Quantum(a, den, q) == IF a < q * TwoP * den THEN q ELSE Quantum(a, den, 2 * q)

\* The magnitude a / den (a >= 0, den > 0) rounded to nearest, ties to even;
\* the result is in units, and may exceed MaxK.
RoundMag(a, den) ==
  LET q == Quantum(a, den, 1)
      f == a \div (den * q)
      rem2 == 2 * (a - f * den * q)
      up == rem2 > den * q \/ (rem2 = den * q /\ f % 2 = 1)
  IN (IF up THEN f + 1 ELSE f) * q

\* The rational num / den (den > 0), in units, as a floating-point value.
Round(num, den) ==
  LET k == RoundMag(Abs(num), den)
  IN IF k > MaxK THEN (IF num < 0 THEN NInf ELSE PInf)
     ELSE FNum(IF num < 0 THEN -k ELSE k)

Neg(a) ==
  CASE a.k = "pinf" -> NInf
    [] a.k = "ninf" -> PInf
    [] a.k = "num" -> FNum(-a.v)
    [] OTHER -> NaN

\* a + b
FAdd(a, b) ==
  IF IsNaN(a) \/ IsNaN(b) THEN NaN
  ELSE IF IsInf(a) /\ IsInf(b) THEN (IF a = b THEN a ELSE NaN)
  ELSE IF IsInf(a) THEN a
  ELSE IF IsInf(b) THEN b
  ELSE Round(a.v + b.v, 1)

\* a - b
FSub(a, b) == FAdd(a, Neg(b))

Sign(a) ==
  CASE a.k = "pinf" -> 1
    [] a.k = "ninf" -> -1
    [] a.k = "num" -> (IF a.v < 0 THEN -1 ELSE 1)
    [] OTHER -> 1

\* a / b; a zero divisor is +0 (it comes from an unsigned integer).
FDiv(a, b) ==
  IF IsNaN(a) \/ IsNaN(b) THEN NaN
  ELSE IF IsInf(a) /\ IsInf(b) THEN NaN
  ELSE IF IsInf(a) THEN (IF Sign(a) * Sign(b) < 0 THEN NInf ELSE PInf)
  ELSE IF IsInf(b) THEN Zero
  ELSE IF b.v = 0 THEN
    (IF a.v = 0 THEN NaN ELSE IF a.v < 0 THEN NInf ELSE PInf)
  ELSE IF b.v < 0 THEN Round(-(a.v * One), -b.v)
  ELSE Round(a.v * One, b.v)

\* a < b; false when either is NaN.
FLess(a, b) ==
  IF IsNaN(a) \/ IsNaN(b) THEN FALSE
  ELSE IF a = b THEN FALSE
  ELSE IF a.k = "ninf" \/ b.k = "pinf" THEN TRUE
  ELSE IF a.k = "pinf" \/ b.k = "ninf" THEN FALSE
  ELSE a.v < b.v

RECURSIVE SqrtQuantum(_, _)
SqrtQuantum(nn, q) ==
  IF nn < (q * TwoP) * (q * TwoP) THEN q ELSE SqrtQuantum(nn, 2 * q)

\* The square root of v units (v > 0), rounded to nearest, in units.
SqrtMag(v) ==
  LET nn == v * One
      q == SqrtQuantum(nn, 1)
      f == CHOOSE g \in 0..(TwoP - 1) :
             (g * q) * (g * q) <= nn /\ nn < ((g + 1) * q) * ((g + 1) * q)
      mid2 == ((2 * f + 1) * q) * ((2 * f + 1) * q)
      up == 4 * nn > mid2 \/ (4 * nn = mid2 /\ f % 2 = 1)
  IN (IF up THEN f + 1 ELSE f) * q

\* sqrt(a): NaN for a negative argument.
FSqrt(a) ==
  CASE a.k = "nan" -> NaN
    [] a.k = "ninf" -> NaN
    [] a.k = "pinf" -> PInf
    [] OTHER -> IF a.v < 0 THEN NaN
                ELSE IF a.v = 0 THEN Zero
                ELSE FNum(SqrtMag(a.v))

\* A size_t converted to double.
FromSize(k) == Round(k * One, 1)

(***************************************************************************)
(* Matrices.  An output matrix (arma::mat) is its shape and its elements   *)
(* in column-major order.  An input matrix (MatType) is its shape and the  *)
(* values its iterator visits, in order: all n_rows * n_cols elements of a *)
(* dense matrix, only the stored nonzeros of a sparse one.                 *)
(***************************************************************************)
Mat(rows, cols, mem) == [n_rows |-> rows, n_cols |-> cols, mem |-> mem]

EmptyMat == Mat(0, 0, <<>>)

Shape(mat) == <<mat.n_rows, mat.n_cols>>

InMat(rows, cols, stored) == [n_rows |-> rows, n_cols |-> cols, stored |-> stored]

\* Element values of the inputs: 0, 3.0, 6.0, ...
Vals == {FNum(3 * One * k) : k \in 0..MaxVal}

InputMatrices(maxRows, maxCols, maxCells) ==
  UNION {
    {InMat(rows, cols, s) : s \in [1..(rows * cols) -> Vals]}
    \cup
    UNION {{InMat(rows, cols, s) : s \in [1..k -> Vals \ {Zero}]} :
             k \in 0..(rows * cols - 1)}
    : <<rows, cols>> \in {sh \in (0..maxRows) \X (0..maxCols) :
                            sh[1] * sh[2] <= maxCells}}

Matrices == InputMatrices(MaxDim, MaxDim, MaxCells)

SeqMatrices == InputMatrices(SeqRows, SeqCols, SeqRows * SeqCols)

\* Matrices a caller may hand in as W, H or M: empty, or holding old values.
PriorMats ==
  {EmptyMat} \cup {Mat(k, 1, [i \in 1..k |-> FNum(One)]) : k \in 1..MaxPriorRows}

\* The selector characters tried: the four the code accepts and one it does not.
Selectors == {"W", "w", "H", "h", "X"}

(***************************************************************************)
(* The random source: the j-th draw of the stream, a value in [0, 1).      *)
(***************************************************************************)
Noise(j) == FNum(((j % RngPeriod) * (One - 1)) % One)

\* randu that fills the matrix at the size it already has.
Randu_NoResize(mat, rows, cols, pos) ==
  Mat(mat.n_rows, mat.n_cols, [i \in 1..Len(mat.mem) |-> Noise(pos + i - 1)])

\* mat.randu(rows, cols): resize, then fill with the next draws of the stream.
Randu(mat, rows, cols, pos) ==
  Mat(rows, cols, [i \in 1..(rows * cols) |-> Noise(pos + i - 1)])

\* mat + s, elementwise.
AddScalar(mat, s) ==
  Mat(mat.n_rows, mat.n_cols,
      [i \in 1..Len(mat.mem) |-> FAdd(mat.mem[i], s)])

(***************************************************************************)
(* The statistics pass.                                                    *)
(***************************************************************************)
\* The loop over V.begin() .. V.end(), from position i with locals st.
RECURSIVE Traverse(_, _, _)
Traverse(stored, i, st) ==
  IF i > Len(stored) THEN st
  ELSE Traverse(stored, i + 1,
         [avgV |-> FAdd(st.avgV, stored[i]),
          count |-> st.count + 1,
          min |-> IF FLess(stored[i], st.min) THEN stored[i] ELSE st.min])

\* double avgV = 0; size_t count = 0; double min = DBL_MAX;
Locals == [avgV |-> Zero, count |-> 0, min |-> DBL_MAX]

\* The locals at the end of a statistics pass: sum is avgV after the loop,
\* avgV its value after the square root.
Stats(st, avgV) ==
  [sum |-> st.avgV, count |-> st.count, min |-> st.min, avgV |-> avgV]

\* Lines 51-67 with the mean taken over the elements visited (avgV / count).
StatsBoth_ByCount(Vm, rk) ==
  LET st == Traverse(Vm.stored, 1, Locals)
  IN Stats(st, FSqrt(FDiv(FSub(FDiv(st.avgV, FromSize(st.count)), st.min),
                          FromSize(rk))))

\* Initialize, lines 51-67.
StatsBoth(Vm, rk) ==
  LET n == Vm.n_rows
      m == Vm.n_cols
      st == Traverse(Vm.stored, 1, Locals)
  IN Stats(st, FSqrt(FDiv(FSub(FDiv(st.avgV, FromSize(n * m)), st.min),
                          FromSize(rk))))

\* Lines 98-114 with the mean taken over the elements visited (avgV / count).
StatsW_ByCount(Vm, rk) ==
  LET st == Traverse(Vm.stored, 1, Locals)
  IN Stats(st, FSqrt(FDiv(FSub(FDiv(st.avgV, FromSize(st.count)), st.min),
                          FromSize(rk))))

\* InitializeOne, the 'W' branch, lines 98-114.
StatsW(Vm, rk) ==
  LET n == Vm.n_rows
      m == Vm.n_cols
      st == Traverse(Vm.stored, 1, Locals)
  IN Stats(st, FSqrt(FDiv(FSub(FDiv(st.avgV, FromSize(n * m)), st.min),
                          FromSize(rk))))

\* InitializeOne, the 'H' branch, lines 123-139.
StatsH(Vm, rk) ==
  LET n == Vm.n_rows
      m == Vm.n_cols
      st == Traverse(Vm.stored, 1, Locals)
  IN Stats(st, FSqrt(FDiv(FSub(FDiv(st.avgV, FromSize(n * m)), st.min),
                          FromSize(rk))))

(***************************************************************************)
(* The calls.  call records the call made last: which member, the          *)
(* selector, the position of the random stream on entry, and the locals.   *)
(***************************************************************************)
CallRec(op, whichMatrix, pos, st) ==
  [op |-> op, whichMatrix |-> whichMatrix, rng0 |-> pos,
   sum |-> st.sum, count |-> st.count, min |-> st.min, avgV |-> st.avgV]

NoCall == CallRec("none", "-", 0, Stats(Locals, Zero))

\* Log::Fatal << ... << std::endl: the process is terminated.
LogFatal == pc' = "aborted"

\* Initialize with the statistics pass run over W instead of V.
Initialize_StatsOfW ==
  /\ pc = "idle"
  /\ LET n == V.n_rows
         m == V.n_cols
         st == StatsBoth(InMat(W.n_rows, W.n_cols, W.mem), r)
     IN /\ W' = AddScalar(Randu(W, n, r, rng), st.avgV)
        /\ H' = AddScalar(Randu(H, r, m, rng + n * r), st.avgV)
        /\ rng' = (rng + n * r + r * m) % RngPeriod
        /\ call' = CallRec("Initialize", "-", rng, st)
  /\ pc' = "returned"
  /\ UNCHANGED <<V, r, M, ref>>

Initialize ==
  /\ pc = "idle"
  /\ LET n == V.n_rows
         m == V.n_cols
         st == StatsBoth(V, r)
     IN /\ W' = AddScalar(Randu(W, n, r, rng), st.avgV)
        /\ H' = AddScalar(Randu(H, r, m, rng + n * r), st.avgV)
        /\ rng' = (rng + n * r + r * m) % RngPeriod
        /\ call' = CallRec("Initialize", "-", rng, st)
  /\ pc' = "returned"
  /\ UNCHANGED <<V, r, M, ref>>

\* InitializeOne accepting only the upper-case selectors.
InitializeOne_CaseSensitive(whichMatrix) ==
  /\ pc = "idle"
  /\ LET n == V.n_rows
         m == V.n_cols
     IN IF whichMatrix = "W" THEN
          LET st == StatsW(V, r)
          IN /\ M' = AddScalar(Randu(M, n, r, rng), st.avgV)
             /\ rng' = (rng + n * r) % RngPeriod
             /\ call' = CallRec("InitializeOne", whichMatrix, rng, st)
             /\ pc' = "returned"
        ELSE IF whichMatrix = "H" THEN
          LET st == StatsH(V, r)
          IN /\ M' = AddScalar(Randu(M, r, m, rng), st.avgV)
             /\ rng' = (rng + r * m) % RngPeriod
             /\ call' = CallRec("InitializeOne", whichMatrix, rng, st)
             /\ pc' = "returned"
        ELSE
          /\ LogFatal
          /\ call' = CallRec("InitializeOne", whichMatrix, rng,
                             Stats(Locals, Zero))
          /\ UNCHANGED <<M, rng>>
  /\ UNCHANGED <<V, r, W, H, ref>>

\* InitializeOne whose last branch is a plain else: any other selector
\* initializes M as H.
InitializeOne_Default(whichMatrix) ==
  /\ pc = "idle"
  /\ LET n == V.n_rows
         m == V.n_cols
     IN IF whichMatrix = "W" \/ whichMatrix = "w" THEN
          LET st == StatsW(V, r)
          IN /\ M' = AddScalar(Randu(M, n, r, rng), st.avgV)
             /\ rng' = (rng + n * r) % RngPeriod
             /\ call' = CallRec("InitializeOne", whichMatrix, rng, st)
             /\ pc' = "returned"
        ELSE
          LET st == StatsH(V, r)
          IN /\ M' = AddScalar(Randu(M, r, m, rng), st.avgV)
             /\ rng' = (rng + r * m) % RngPeriod
             /\ call' = CallRec("InitializeOne", whichMatrix, rng, st)
             /\ pc' = "returned"
  /\ UNCHANGED <<V, r, W, H, ref>>

InitializeOne(whichMatrix) ==
  /\ pc = "idle"
  /\ LET n == V.n_rows
         m == V.n_cols
     IN IF whichMatrix = "W" \/ whichMatrix = "w" THEN
          LET st == StatsW(V, r)
          IN /\ M' = AddScalar(Randu(M, n, r, rng), st.avgV)
             /\ rng' = (rng + n * r) % RngPeriod
             /\ call' = CallRec("InitializeOne", whichMatrix, rng, st)
             /\ pc' = "returned"
        ELSE IF whichMatrix = "H" \/ whichMatrix = "h" THEN
          LET st == StatsH(V, r)
          IN /\ M' = AddScalar(Randu(M, r, m, rng), st.avgV)
             /\ rng' = (rng + r * m) % RngPeriod
             /\ call' = CallRec("InitializeOne", whichMatrix, rng, st)
             /\ pc' = "returned"
        ELSE
          /\ LogFatal
          /\ call' = CallRec("InitializeOne", whichMatrix, rng,
                             Stats(Locals, Zero))
          /\ UNCHANGED <<M, rng>>
  /\ UNCHANGED <<V, r, W, H, ref>>

\* What is remembered of a call that returned.
Snapshot ==
  [V |-> V, r |-> r, op |-> call.op, whichMatrix |-> call.whichMatrix,
   avgV |-> call.avgV,
   out |-> IF call.op = "Initialize" THEN <<Shape(W), Shape(H)>>
           ELSE <<Shape(M)>>]

\* The caller, after a call has returned: it may remember the call, and it
\* prepares the next one with new arguments and output matrices.
Caller ==
  /\ pc = "returned"
  /\ \E Vn \in SeqMatrices, rn \in 0..SeqRank, p \in PriorMats, keep \in BOOLEAN :
       /\ V' = Vn
       /\ r' = rn
       /\ W' = p
       /\ H' = p
       /\ M' = p
       /\ ref' = IF keep THEN <<Snapshot>> ELSE ref
  /\ pc' = "idle"
  /\ call' = NoCall
  /\ UNCHANGED rng

\* One call, on any input of the bounds, with any output matrices handed in.
Init ==
  /\ V \in Matrices
  /\ r \in 0..MaxRank
  /\ \E p \in PriorMats : W = p /\ H = p /\ M = p
  /\ rng \in 0..(RngPeriod - 1)
  /\ pc = "idle"
  /\ call = NoCall
  /\ ref = <<>>

Next ==
  \/ Initialize
  \/ \E whichMatrix \in Selectors : InitializeOne(whichMatrix)

Spec == Init /\ [][Next]_vars

\* Calls made one after another by one caller.
InitCalls ==
  /\ V \in SeqMatrices
  /\ r \in 0..SeqRank
  /\ \E p \in PriorMats : W = p /\ H = p /\ M = p
  /\ rng = 0
  /\ pc = "idle"
  /\ call = NoCall
  /\ ref = <<>>

NextCalls ==
  \/ Initialize
  \/ \E whichMatrix \in Selectors : InitializeOne(whichMatrix)
  \/ Caller

SpecCalls == InitCalls /\ [][NextCalls]_vars

(***************************************************************************)
(* Quantities the properties are stated with.                              *)
(***************************************************************************)
n_of == V.n_rows
m_of == V.n_cols

ValidSelectors == {"W", "w", "H", "h"}

\* The call made last was made with arguments the code accepts.
MadeValidCall ==
  \/ call.op = "Initialize"
  \/ call.op = "InitializeOne" /\ call.whichMatrix \in ValidSelectors

\* mean = sum / (n * m) and (mean - min) / r, from the locals of the last call.
MeanOfCall == FDiv(call.sum, FromSize(n_of * m_of))
RadicandOfCall == FDiv(FSub(MeanOfCall, call.min), FromSize(r))

\* sqrt(max(0, (mean - min) / r))
ClampedSeed ==
  FSqrt(IF FLess(RadicandOfCall, Zero) THEN Zero ELSE RadicandOfCall)

\* seed <= e < seed + 1, the bounds taken exactly.
InRange(e, seed) ==
  IsNum(e) /\ IsNum(seed) /\ seed.v <= e.v /\ e.v < seed.v + One

AllInRange(mat, seed) == \A i \in 1..Len(mat.mem) : InRange(mat.mem[i], seed)

\* The matrices the last call wrote.
Written == IF call.op = "Initialize" THEN {W, H} ELSE {M}

\* A rows x cols matrix of seed plus the draws from position pos on.
Fill(rows, cols, seed, pos) ==
  Mat(rows, cols, [i \in 1..(rows * cols) |-> FAdd(Noise(pos + i - 1), seed)])

\* The sum of the first k elements of s, added left to right.
RECURSIVE LeftSum(_, _)
LeftSum(s, k) == IF k = 0 THEN Zero ELSE FAdd(LeftSum(s, k - 1), s[k])

\* The smallest element of s, DBL_MAX when s is empty.
SmallestOf(s) ==
  IF Len(s) = 0 THEN DBL_MAX
  ELSE LET e == CHOOSE x \in {s[i] : i \in 1..Len(s)} :
                  \A j \in 1..Len(s) : ~FLess(s[j], x)
       IN IF FLess(e, DBL_MAX) THEN e ELSE DBL_MAX

UpperOf(c) == IF c = "w" THEN "W" ELSE IF c = "h" THEN "H" ELSE c

RefSameInput == ref # <<>> /\ ref[1].V = V /\ ref[1].r = r

(***************************************************************************)
(* C1.  For n, m >= 1 and r >= 1, Initialize returns W of shape n x r and  *)
(* H of shape r x m whose entries e all satisfy seed <= e < seed + 1, with *)
(* seed = sqrt(max(0, (mean - min) / r)).                                  *)
(***************************************************************************)
C1_EntriesInSeedRange ==
  (pc = "returned" /\ call.op = "Initialize"
     /\ n_of >= 1 /\ m_of >= 1 /\ r >= 1)
  => /\ Shape(W) = <<n_of, r>>
     /\ Shape(H) = <<r, m_of>>
     /\ AllInRange(W, ClampedSeed)
     /\ AllInRange(H, ClampedSeed)

C3_ZeroDimensionRejected ==
  (pc # "idle" /\ MadeValidCall /\ (n_of = 0 \/ m_of = 0 \/ r = 0))
  => pc # "returned"

(***************************************************************************)
(* C4.  For n, m >= 1 and r >= 1 with (mean - min) / r negative, the seed  *)
(* is clamped to 0 and every entry written lies in [0, 1).                 *)
(***************************************************************************)
C4_NegativeRadicandClamped ==
  (pc = "returned" /\ n_of >= 1 /\ m_of >= 1 /\ r >= 1
     /\ FLess(RadicandOfCall, Zero))
  => /\ call.avgV = Zero
     /\ \A mat \in Written : AllInRange(mat, Zero)

(***************************************************************************)
(* C5.  For the same V and r, InitializeOne with 'W' gives M the shape and *)
(* the seed of the W of Initialize, and with 'H' the shape and the seed of *)
(* the H of Initialize, whichever of the two calls is made first and       *)
(* whatever calls are made in between.                                     *)
(***************************************************************************)
C5_OneMatchesBoth ==
  (pc = "returned" /\ RefSameInput)
  => /\ (ref[1].op = "Initialize" /\ call.op = "InitializeOne"
           /\ call.whichMatrix \in {"W", "H"})
        => /\ call.avgV = ref[1].avgV
           /\ call.whichMatrix = "W" => Shape(M) = ref[1].out[1]
           /\ call.whichMatrix = "H" => Shape(M) = ref[1].out[2]
     /\ (ref[1].op = "InitializeOne" /\ call.op = "Initialize"
           /\ ref[1].whichMatrix \in {"W", "H"})
        => /\ call.avgV = ref[1].avgV
           /\ ref[1].whichMatrix = "W" => ref[1].out[1] = Shape(W)
           /\ ref[1].whichMatrix = "H" => ref[1].out[1] = Shape(H)

C5_Witness ==
  /\ pc = "returned"
  /\ RefSameInput
  /\ ref[1].op = "Initialize"
  /\ call.op = "InitializeOne"
  /\ call.whichMatrix = "W"
  /\ call.rng0 # 0
  /\ IsNum(call.avgV) /\ call.avgV.v > 0
  /\ Len(M.mem) > 0 /\ m_of # r

(***************************************************************************)
(* C6.  The mean behind the seed is the sum of the visited elements        *)
(* divided by n * m, whatever the number of elements visited, and min is   *)
(* the smallest visited element (DBL_MAX when none is visited).            *)
(***************************************************************************)
C6_MeanOverFullSize ==
  (pc = "returned")
  => /\ call.count = Len(V.stored)
     /\ call.sum = LeftSum(V.stored, Len(V.stored))
     /\ call.min = SmallestOf(V.stored)
     /\ call.avgV =
          FSqrt(FDiv(FSub(FDiv(call.sum, FromSize(n_of * m_of)), call.min),
                     FromSize(r)))

C6_Witness ==
  /\ pc = "returned"
  /\ call.op = "Initialize"
  /\ r >= 1
  /\ call.count >= 1
  /\ call.count < n_of * m_of
  /\ FLess(MeanOfCall, call.min)
  /\ FLess(Zero, MeanOfCall)

(***************************************************************************)
(* C7.  InitializeOne does not distinguish 'w' from 'W' nor 'h' from 'H':  *)
(* for the same V and r the two calls of a pair both return, with the same *)
(* shape of M (n x r for W, r x m for H) and the same seed.                *)
(***************************************************************************)
C7_CaseInsensitive ==
  (pc # "idle" /\ RefSameInput
     /\ ref[1].op = "InitializeOne" /\ call.op = "InitializeOne"
     /\ ref[1].whichMatrix # call.whichMatrix
     /\ UpperOf(ref[1].whichMatrix) = UpperOf(call.whichMatrix))
  => /\ pc = "returned"
     /\ call.avgV = ref[1].avgV
     /\ Shape(M) = ref[1].out[1]
     /\ Shape(M) = IF UpperOf(call.whichMatrix) = "W" THEN <<n_of, r>>
                   ELSE <<r, m_of>>

C7_Witness ==
  /\ pc = "returned"
  /\ RefSameInput
  /\ ref[1].op = "InitializeOne"
  /\ ref[1].whichMatrix = "W"
  /\ call.op = "InitializeOne"
  /\ call.whichMatrix = "w"
  /\ IsNum(call.avgV) /\ call.avgV.v > 0
  /\ Len(M.mem) > 0 /\ m_of # r

(***************************************************************************)
(* C8.  No call changes V or r, and a call that returns yields the seed    *)
(* that any remembered earlier call with the same V and r yielded,         *)
(* whatever was called in between and whatever the output matrices held.   *)
(***************************************************************************)
C8_Stateless ==
  [][/\ pc = "idle" => (V' = V /\ r' = r)
     /\ (pc' = "returned" /\ ref' # <<>> /\ ref'[1].V = V' /\ ref'[1].r = r')
        => call'.avgV = ref'[1].avgV]_vars

C8_Witness ==
  /\ pc = "returned"
  /\ RefSameInput
  /\ call.rng0 # 0
  /\ W # EmptyMat
  /\ IsNum(call.avgV) /\ call.avgV.v > 0
  /\ ref[1].op = call.op

(***************************************************************************)
(* C9.  A call that returns leaves in each matrix it writes the shape and  *)
(* the entries fixed by V, r, the selector and the draws of that call      *)
(* alone (seed plus the next draws, in column-major order), whatever the   *)
(* matrix held before; Initialize leaves M alone and InitializeOne leaves  *)
(* W and H alone.                                                          *)
(***************************************************************************)
C9_FullyOverwritten ==
  [][(pc = "idle" /\ pc' = "returned")
     => IF call'.op = "Initialize"
        THEN /\ W' = Fill(n_of, r, call'.avgV, rng)
             /\ H' = Fill(r, m_of, call'.avgV, rng + n_of * r)
             /\ M' = M
        ELSE /\ M' = IF UpperOf(call'.whichMatrix) = "W"
                     THEN Fill(n_of, r, call'.avgV, rng)
                     ELSE Fill(r, m_of, call'.avgV, rng)
             /\ W' = W
             /\ H' = H]_vars

C9_Witness ==
  /\ pc = "returned"
  /\ call.op = "InitializeOne"
  /\ W # EmptyMat
  /\ H = W
  /\ Len(M.mem) > Len(W.mem)
  /\ \E i \in 1..Len(M.mem) : M.mem[i] # FNum(One)

(***************************************************************************)
(* C10.  For a dense V (all n * m elements visited, n, m >= 1) and r >= 1  *)
(* the statistics satisfy mean >= min, so (mean - min) / r is not          *)
(* negative.                                                               *)
(***************************************************************************)
C10_DenseMeanAtLeastMin ==
  (pc = "returned" /\ n_of >= 1 /\ m_of >= 1 /\ r >= 1
     /\ call.count = n_of * m_of)
  => /\ ~FLess(MeanOfCall, call.min)
     /\ ~FLess(RadicandOfCall, Zero)

====
